---- MODULE Spec2Model ----
(***************************************************************************)
(* A model of paper-shell's content-addressable editor backend             *)
(* (src/src/backend.rs): the blob store, the per-identity history ledgers  *)
(* and the identity token attached to a file as extended metadata.         *)
(*                                                                         *)
(* Every backend function is an operator with the function's name.  A      *)
(* function that touches the file system returns the SET of its possible   *)
(* outcomes: one for the fault-free run and one for each I/O failure the   *)
(* code has an error path for.  A failed fs::write is taken to leave the   *)
(* file as it was.                                                         *)
(***************************************************************************)
EXTENDS Integers, Sequences, FiniteSets, TLC

\* ------------------------------------------------------------------ bounds
NumPaths == 2
NumContents == 3
HashSpace == 2
MaxTokens == 3
MaxSaves == 3
MaxFaults == 1
NumThreads == 2
NumCallbacks == 2
MaxFiles == 2
NumRecentPaths == 11
MaxAdds == 3
MAX_RECENT_FILES == 10
MaxTicks == 4
TickMs == 600
MaxQueue == 2

Paths == 1..NumPaths
Contents == 1..NumContents
Hashes == 0..(HashSpace - 1)
Uuids == 1..MaxTokens
\* The threads try_save_file spawns, one save each.
Threads == 1..NumThreads
\* Option::None, and the value of a field of `last` a call does not set.
None == 0

VARIABLES
    blobs,      \* <data_dir>/blobs: hash -> content, one key per blob file
    ledgers,    \* <data_dir>/history: uuid -> sequence of HistoryEntry, one key per <uuid>.json
    xattr,      \* the METADATA_KEY attribute: path -> uuid, one key per file that carries it
    now,        \* the last value Utc::now() returned
    uuid_ctr,   \* how many tokens Uuid::new_v4() has produced
    faults,     \* how many I/O failures the calls so far have met
    saves,      \* the save calls that returned Ok so far, in call order: <<path, content, uuid>>
    puts,       \* the contents save_blob has returned Ok for
    blob_writes,\* how many blob files fs::write has put in place
    last,       \* the last call: its arguments, what it met and what it returned
    procs       \* thread -> where its save stands and the locals it holds

\* The application's save path (src/src/app.rs).
VARIABLES
    disk,       \* the document files: path -> the content std::fs::write put there
    app_job,    \* the <<path, content>> written and not yet given to backend.save, or <<>>
    app_last    \* the last step of the save path and how it went

\* The macOS open-with delegate (src/src/open_with.rs).
VARIABLES
    pending_files,  \* PENDING_FILES: the paths buffered until the sender is set
    sender,         \* SENDER: TRUE once it holds Some(sender)
    channel,        \* the ResponseMessage::OpenFile paths sent on the channel, in order
    mutex,          \* who holds each of the two mutexes: a process or None
    ow              \* process -> where it stands and the paths it has still to deliver

\* The recent files of the configuration (src/src/config.rs).
VARIABLES
    recent_files,   \* settings.recent_files
    added_at,       \* path -> the number of the add_recent_file call that last added it (0: never)
    adds,           \* how many add_recent_file calls there were
    rf_calls        \* how many of them in this run

\* The writing-time tracker (src/src/time_backend.rs).
VARIABLES
    tb_queue,         \* the mpsc channel of TimeMessage, oldest first
    tb_running,       \* the tracking loop has not met Stop
    is_focused,       \* local of time_tracking_loop
    focus_start_time, \* local of time_tracking_loop
    writing_time,     \* the AtomicU64, milliseconds
    instant,          \* Instant::now(), milliseconds
    tb_added,         \* all the milliseconds fetch_add has added
    tb_taken,         \* all the milliseconds swap(0) has returned
    tb_last           \* the last step of the tracker: what it was and what it met

backendVars == <<blobs, ledgers, xattr, now, uuid_ctr, saves, puts, blob_writes, faults, last, procs>>
appVars == <<disk, app_job, app_last>>
owVars == <<pending_files, sender, channel, mutex, ow>>
rfVars == <<recent_files, added_at, adds, rf_calls>>
tbVars == <<tb_queue, tb_running, is_focused, focus_start_time, writing_time, instant,
            tb_added, tb_taken, tb_last>>
\* All that is not the editor backend.
uiVars == <<appVars, owVars, rfVars, tbVars>>

vars == <<backendVars, uiVars>>

\* ---------------------------------------------------------------- helpers
IsPrefix(s, t) == Len(s) <= Len(t) /\ \A i \in 1..Len(s) : s[i] = t[i]

LedgerOf(ls, u) == IF u \in DOMAIN ls THEN ls[u] ELSE <<>>

HashesOf(entries) == [i \in 1..Len(entries) |-> entries[i].hash]

\* ------------------------------------------------------------ the backend
\* xxh64 maps every content to one of finitely many digests, so distinct
\* contents can share one: here contents c and c + HashSpace collide.
calculate_hash(content) == content % HashSpace

HistoryEntry(hash, timestamp, file_path) ==
    [hash |-> hash, timestamp |-> timestamp, file_path |-> file_path]

\* Utc::now(): the wall clock read by a save, later than every instant read before.
Utc_now == now + 1

\* Uuid::new_v4(): a value no earlier call returned.
Uuid_new_v4(ctr) == ctr + 1

\* A save_blob that has lost its exists() test: it writes every time.
save_blob_overwrite(bs, hash, content) ==
    {[ok |-> TRUE, wrote |-> TRUE, f |-> 0,
      blobs |-> [h \in DOMAIN bs \cup {hash} |-> IF h = hash THEN content ELSE bs[h]]],
     [ok |-> FALSE, blobs |-> bs, wrote |-> FALSE, f |-> 1]}

\* A save_blob that refuses a hash whose blob holds another content.
save_blob_comparing(bs, hash, content) ==
    IF hash \in DOMAIN bs
    THEN {[ok |-> bs[hash] = content, blobs |-> bs, wrote |-> FALSE, f |-> 0]}
    ELSE {[ok |-> TRUE, wrote |-> TRUE, f |-> 0,
           blobs |-> [h \in DOMAIN bs \cup {hash} |-> IF h = hash THEN content ELSE bs[h]]],
          [ok |-> FALSE, blobs |-> bs, wrote |-> FALSE, f |-> 1]}

\* A save_blob that drops the error of fs::write (`let _ = fs::write(..)`).
save_blob_swallowing(bs, hash, content) ==
    IF hash \in DOMAIN bs
    THEN {[ok |-> TRUE, blobs |-> bs, wrote |-> FALSE, f |-> 0]}
    ELSE {[ok |-> TRUE, wrote |-> TRUE, f |-> 0,
           blobs |-> [h \in DOMAIN bs \cup {hash} |-> IF h = hash THEN content ELSE bs[h]]],
          [ok |-> TRUE, blobs |-> bs, wrote |-> FALSE, f |-> 1]}

\* Every outcome record carries `f`, the number of I/O failures the run met.
\* `wrote` tells whether fs::write put a blob file in place.
save_blob(bs, hash, content) ==
    IF hash \in DOMAIN bs
    THEN {[ok |-> TRUE, blobs |-> bs, wrote |-> FALSE, f |-> 0]}
    ELSE {[ok |-> TRUE, wrote |-> TRUE, f |-> 0,
           blobs |-> [h \in DOMAIN bs \cup {hash} |-> IF h = hash THEN content ELSE bs[h]]],
          [ok |-> FALSE, blobs |-> bs, wrote |-> FALSE, f |-> 1]}

get_file_id_wrapper(xa, path) ==
    { IF path \in DOMAIN xa
      THEN [ok |-> TRUE, some |-> TRUE, uuid |-> xa[path], f |-> 0]
      ELSE [ok |-> TRUE, some |-> FALSE, uuid |-> None, f |-> 0],
      [ok |-> FALSE, some |-> FALSE, uuid |-> None, f |-> 1] }

set_file_id_wrapper(xa, path, id) ==
    { [ok |-> TRUE, f |-> 0,
       xattr |-> [p \in DOMAIN xa \cup {path} |-> IF p = path THEN id ELSE xa[p]]],
      [ok |-> FALSE, xattr |-> xa, f |-> 1] }

\* The entry entries.iter().find(|e| e.hash == hash) returns.
FirstMatch(entries, hash) ==
    LET I == {i \in 1..Len(entries) : entries[i].hash = hash}
    IN entries[CHOOSE i \in I : \A j \in I : i <= j]

HasMatch(entries, hash) == \E i \in 1..Len(entries) : entries[i].hash = hash

\* The candidates vector built from the history files that could be read.
Candidates(ls, hash, readable) ==
    { <<u, FirstMatch(ls[u], hash).timestamp>> :
        u \in {t \in readable : HasMatch(ls[t], hash)} }

\* candidates.sort_by_key(timestamp) is stable and read_dir lists the files in
\* no particular order, so last() is any candidate of the greatest timestamp.
MostRecent(cands) ==
    { c[1] : c \in {d \in cands : \A e \in cands : e[2] <= d[2]} }

\* A find_uuid_by_hash whose file filter matches no history file.
find_uuid_by_hash_no_file(ls, hash) ==
    {[ok |-> FALSE, uuid |-> None, err |-> "Io", f |-> 1],
     [ok |-> FALSE, uuid |-> None, err |-> "InvalidHash", f |-> 0]}

find_uuid_by_hash(ls, hash) ==
    {[ok |-> FALSE, uuid |-> None, err |-> "Io", f |-> 1]}
    \cup UNION {
        LET cands == Candidates(ls, hash, readable)
            f == Cardinality(DOMAIN ls \ readable)
        IN IF cands = {}
           THEN {[ok |-> FALSE, uuid |-> None, err |-> "InvalidHash", f |-> f]}
           ELSE {[ok |-> TRUE, uuid |-> u, err |-> "", f |-> f] : u \in MostRecent(cands)}
        : readable \in SUBSET (DOMAIN ls) }

\* A load_history_by_uuid without the exists() test: a missing record fails the read.
load_history_by_uuid_strict(ls, uuid) ==
    IF uuid \notin DOMAIN ls
    THEN {[ok |-> FALSE, entries |-> <<>>, err |-> "Io", f |-> 0]}
    ELSE {[ok |-> TRUE, entries |-> ls[uuid], err |-> "", f |-> 0],
          [ok |-> FALSE, entries |-> <<>>, err |-> "Io", f |-> 1],
          [ok |-> FALSE, entries |-> <<>>, err |-> "Json", f |-> 1]}

load_history_by_uuid(ls, uuid) ==
    IF uuid \notin DOMAIN ls
    THEN {[ok |-> TRUE, entries |-> <<>>, err |-> "", f |-> 0]}
    ELSE {[ok |-> TRUE, entries |-> ls[uuid], err |-> "", f |-> 0],
          [ok |-> FALSE, entries |-> <<>>, err |-> "Io", f |-> 1],
          [ok |-> FALSE, entries |-> <<>>, err |-> "Json", f |-> 1]}

\* A save_history that writes the newest entry alone.
save_history_newest_only(ls, uuid, entries) ==
    { [ok |-> TRUE, f |-> 0,
       ledgers |-> [u \in DOMAIN ls \cup {uuid} |->
                      IF u = uuid THEN <<entries[Len(entries)]>> ELSE ls[u]]],
      [ok |-> FALSE, ledgers |-> ls, f |-> 1] }

\* A save_history whose file name leaves out the uuid: one record for all tokens.
save_history_one_file(ls, uuid, entries) ==
    { [ok |-> TRUE, f |-> 0, ledgers |-> [u \in DOMAIN ls \cup {uuid} |-> entries]],
      [ok |-> FALSE, ledgers |-> ls, f |-> 1] }

save_history(ls, uuid, entries) ==
    { [ok |-> TRUE, f |-> 0,
       ledgers |-> [u \in DOMAIN ls \cup {uuid} |-> IF u = uuid THEN entries ELSE ls[u]]],
      [ok |-> FALSE, ledgers |-> ls, f |-> 1] }

\* A push that skips an entry whose hash is that of the newest entry.
push_if_changed(history, entry) ==
    IF Len(history) > 0 /\ history[Len(history)].hash = entry.hash
    THEN history
    ELSE Append(history, entry)

\* history.push(entry)
push(history, entry) == Append(history, entry)

\* The outcomes of S that meet at most k I/O failures.
Within(S, k) == {o \in S : o.f <= k}

\* A get_or_create_file_id that searches the history before it reads the
\* attribute: steps 1 and 2 in the wrong order.
get_or_create_file_id_search_first(xa, ls, ctr, path, hash, k) ==
    UNION {
        IF fd.ok
        THEN {[uuid |-> fd.uuid, xattr |-> w.xattr, ctr |-> ctr, how |-> "fallback",
               meta |-> "none", search |-> IF fd.f = 0 THEN "clean" ELSE "faulty",
               attach |-> IF w.ok THEN "ok" ELSE "failed",
               f |-> fd.f + w.f] :
                  w \in Within(set_file_id_wrapper(xa, path, fd.uuid), k - fd.f)}
        ELSE UNION {
                IF rd.ok /\ rd.some
                THEN {[uuid |-> rd.uuid, xattr |-> xa, ctr |-> ctr, how |-> "attached",
                       meta |-> "some", search |-> IF fd.f = 0 THEN "clean" ELSE "faulty",
                       attach |-> "none", f |-> fd.f + rd.f]}
                ELSE LET new_uuid == Uuid_new_v4(ctr) IN
                     {[uuid |-> new_uuid, xattr |-> w.xattr, ctr |-> ctr + 1,
                       how |-> "minted", meta |-> IF rd.ok THEN "absent" ELSE "err",
                       search |-> IF fd.f = 0 THEN "clean" ELSE "faulty",
                       attach |-> IF w.ok THEN "ok" ELSE "failed",
                       f |-> fd.f + rd.f + w.f] :
                          w \in Within(set_file_id_wrapper(xa, path, new_uuid),
                                       k - fd.f - rd.f)}
                : rd \in Within(get_file_id_wrapper(xa, path), k - fd.f) }
        : fd \in Within(find_uuid_by_hash(ls, hash), k) }

\* A get_or_create_file_id that keeps the token the search found only if it could
\* be attached, and mints one otherwise.
get_or_create_file_id_attach_required(xa, ls, ctr, path, hash, k) ==
    UNION {
        IF rd.ok /\ rd.some
        THEN {[uuid |-> rd.uuid, xattr |-> xa, ctr |-> ctr, how |-> "attached",
               meta |-> "some", search |-> "none", attach |-> "none", f |-> rd.f]}
        ELSE LET meta == IF rd.ok THEN "absent" ELSE "err" IN
             UNION {
                UNION {
                    IF fd.ok /\ w.ok
                    THEN {[uuid |-> fd.uuid, xattr |-> w.xattr, ctr |-> ctr,
                           how |-> "fallback", meta |-> meta,
                           search |-> IF fd.f = 0 THEN "clean" ELSE "faulty",
                           attach |-> "ok", f |-> rd.f + fd.f + w.f]}
                    ELSE {[uuid |-> Uuid_new_v4(ctr), xattr |-> w.xattr, ctr |-> ctr + 1,
                           how |-> "minted", meta |-> meta,
                           search |-> IF fd.f = 0 THEN "clean" ELSE "faulty",
                           attach |-> IF w.ok THEN "ok" ELSE "failed",
                           f |-> rd.f + fd.f + w.f]}
                    : w \in Within(set_file_id_wrapper(xa, path,
                                      IF fd.ok THEN fd.uuid ELSE Uuid_new_v4(ctr)),
                                   k - rd.f - fd.f) }
                : fd \in Within(find_uuid_by_hash(ls, hash), k - rd.f) }
        : rd \in Within(get_file_id_wrapper(xa, path), k) }

\* A get_or_create_file_id that searches the history only after Ok(None): a
\* failed attribute read goes straight to a new token.
get_or_create_file_id_err_mints(xa, ls, ctr, path, hash, k) ==
    UNION {
        IF rd.ok /\ rd.some
        THEN {[uuid |-> rd.uuid, xattr |-> xa, ctr |-> ctr, how |-> "attached",
               meta |-> "some", search |-> "none", attach |-> "none", f |-> rd.f]}
        ELSE LET meta == IF rd.ok THEN "absent" ELSE "err" IN
             UNION {
                IF fd.ok /\ rd.ok
                THEN {[uuid |-> fd.uuid, xattr |-> w.xattr, ctr |-> ctr, how |-> "fallback",
                       meta |-> meta, search |-> IF fd.f = 0 THEN "clean" ELSE "faulty",
                       attach |-> IF w.ok THEN "ok" ELSE "failed",
                       f |-> rd.f + fd.f + w.f] :
                          w \in Within(set_file_id_wrapper(xa, path, fd.uuid),
                                       k - rd.f - fd.f)}
                ELSE LET new_uuid == Uuid_new_v4(ctr) IN
                     {[uuid |-> new_uuid, xattr |-> w.xattr, ctr |-> ctr + 1,
                       how |-> "minted", meta |-> meta,
                       search |-> IF ~rd.ok THEN "none"
                                  ELSE IF fd.f = 0 THEN "clean" ELSE "faulty",
                       attach |-> IF w.ok THEN "ok" ELSE "failed",
                       f |-> rd.f + fd.f + w.f] :
                          w \in Within(set_file_id_wrapper(xa, path, new_uuid),
                                       k - rd.f - fd.f)}
                : fd \in Within(find_uuid_by_hash(ls, hash), k - rd.f) }
        : rd \in Within(get_file_id_wrapper(xa, path), k) }

\* `how` names the step that produced the token: "attached" (step 1, the
\* early return), "fallback" (the history search) or "minted" (a new token).
\* `meta` is what the metadata read gave ("some", "absent" or "err") and
\* `search` whether the history search ran and met an I/O failure ("none",
\* "clean" or "faulty") and `attach` what the attribute write did ("none",
\* "ok" or "failed").
\* k is the number of I/O failures the call may still meet.
get_or_create_file_id(xa, ls, ctr, path, hash, k) ==
    UNION {
        IF rd.ok /\ rd.some
        THEN {[uuid |-> rd.uuid, xattr |-> xa, ctr |-> ctr, how |-> "attached",
               meta |-> "some", search |-> "none", attach |-> "none", f |-> rd.f]}
        ELSE LET meta == IF rd.ok THEN "absent" ELSE "err" IN
             UNION {
                IF fd.ok
                THEN {[uuid |-> fd.uuid, xattr |-> w.xattr, ctr |-> ctr, how |-> "fallback",
                       meta |-> meta, search |-> IF fd.f = 0 THEN "clean" ELSE "faulty",
                       attach |-> IF w.ok THEN "ok" ELSE "failed",
                       f |-> rd.f + fd.f + w.f] :
                          w \in Within(set_file_id_wrapper(xa, path, fd.uuid),
                                       k - rd.f - fd.f)}
                ELSE LET new_uuid == Uuid_new_v4(ctr) IN
                     {[uuid |-> new_uuid, xattr |-> w.xattr, ctr |-> ctr + 1,
                       how |-> "minted", meta |-> meta,
                       search |-> IF fd.f = 0 THEN "clean" ELSE "faulty",
                       attach |-> IF w.ok THEN "ok" ELSE "failed",
                       f |-> rd.f + fd.f + w.f] :
                          w \in Within(set_file_id_wrapper(xa, path, new_uuid),
                                       k - rd.f - fd.f)}
                : fd \in Within(find_uuid_by_hash(ls, hash), k - rd.f) }
        : rd \in Within(get_file_id_wrapper(xa, path), k) }

save(bs, ls, xa, ctr, file_path, content, k) ==
    LET hash == calculate_hash(content) IN
    UNION {
        IF ~b.ok
        THEN {[ok |-> FALSE, err |-> "Io", blobs |-> b.blobs, ledgers |-> ls, xattr |-> xa,
               ctr |-> ctr, now |-> now, uuid |-> None, how |-> "none", meta |-> "none",
               search |-> "none", attach |-> "none", put |-> FALSE, wrote |-> FALSE,
               f |-> b.f]}
        ELSE UNION {
            UNION {
                IF ~h.ok
                THEN {[ok |-> FALSE, err |-> h.err, blobs |-> b.blobs, ledgers |-> ls,
                       xattr |-> id.xattr, ctr |-> id.ctr, now |-> now, uuid |-> id.uuid,
                       how |-> id.how, meta |-> id.meta, search |-> id.search,
                       attach |-> id.attach, put |-> TRUE, wrote |-> b.wrote,
                       f |-> b.f + id.f + h.f]}
                ELSE LET t == Utc_now
                         history == push(h.entries, HistoryEntry(hash, t, file_path))
                     IN {[ok |-> w.ok, err |-> IF w.ok THEN "" ELSE "Io", blobs |-> b.blobs,
                          ledgers |-> w.ledgers, xattr |-> id.xattr, ctr |-> id.ctr,
                          now |-> IF w.ok THEN t ELSE now, uuid |-> id.uuid,
                          how |-> id.how, meta |-> id.meta, search |-> id.search,
                          attach |-> id.attach, put |-> TRUE, wrote |-> b.wrote,
                          f |-> b.f + id.f + h.f + w.f] :
                             w \in Within(save_history(ls, id.uuid, history),
                                          k - b.f - id.f - h.f)}
                : h \in Within(load_history_by_uuid(ls, id.uuid), k - b.f - id.f) }
            : id \in get_or_create_file_id(xa, ls, ctr, file_path, hash, k - b.f) }
        : b \in Within(save_blob(bs, hash, content), k) }

load_history(ls, xa, file_path, k) ==
    UNION {
        IF ~rd.ok
        THEN {[ok |-> FALSE, err |-> "Io", entries |-> <<>>, uuid |-> None, meta |-> "err",
               f |-> rd.f]}
        ELSE IF ~rd.some
        THEN {[ok |-> FALSE, err |-> "FileNotFound", entries |-> <<>>, uuid |-> None,
               meta |-> "absent", f |-> rd.f]}
        ELSE {[ok |-> h.ok, err |-> h.err, entries |-> h.entries, uuid |-> rd.uuid,
               meta |-> "some", f |-> rd.f + h.f] :
                 h \in Within(load_history_by_uuid(ls, rd.uuid), k - rd.f)}
        : rd \in Within(get_file_id_wrapper(xa, file_path), k) }

\* A restore_version that reads whichever blob file it finds.
restore_version_any_blob(bs, hash) ==
    IF hash \notin DOMAIN bs
    THEN {[ok |-> FALSE, err |-> "InvalidHash", content |-> None, f |-> 0]}
    ELSE {[ok |-> TRUE, err |-> "", content |-> bs[h], f |-> 0] : h \in DOMAIN bs}
         \cup {[ok |-> FALSE, err |-> "Io", content |-> None, f |-> 1]}

\* A restore_version without the exists() test, taking a failed read for "".
restore_version_unchecked(bs, hash) ==
    IF hash \notin DOMAIN bs
    THEN {[ok |-> TRUE, err |-> "", content |-> None, f |-> 0]}
    ELSE {[ok |-> TRUE, err |-> "", content |-> bs[hash], f |-> 0],
          [ok |-> FALSE, err |-> "Io", content |-> None, f |-> 1]}

restore_version(bs, hash) ==
    IF hash \notin DOMAIN bs
    THEN {[ok |-> FALSE, err |-> "InvalidHash", content |-> None, f |-> 0]}
    ELSE {[ok |-> TRUE, err |-> "", content |-> bs[hash], f |-> 0],
          [ok |-> FALSE, err |-> "Io", content |-> None, f |-> 1]}

get_uuid(xa, ls, ctr, file_path, content, k) ==
    get_or_create_file_id(xa, ls, ctr, file_path, calculate_hash(content), k)

\* ------------------------------------------------------------- the calls
\* The record of a call: its arguments and its result.  `uuid`, `how`, `meta`,
\* `search` and `attach` are what the identity lookup returned and met; `text`
\* is what the call returned besides: the content of restore_version, the
\* entries of load_history.
Call(op, path, content, hash, ok, err, id, text) ==
    [op |-> op, path |-> path, content |-> content, hash |-> hash, ok |-> ok, err |-> err,
     uuid |-> id.uuid, how |-> id.how, meta |-> id.meta, search |-> id.search,
     attach |-> id.attach, text |-> text]

\* What a call that resolves no identity reports of it.
NoId == [uuid |-> None, how |-> "none", meta |-> "none", search |-> "none", attach |-> "none"]

\* A thread that has not called save: no arguments, no locals.
Idle == [pc |-> "idle", path |-> None, content |-> None, hash |-> None, uuid |-> None,
         history |-> <<>>, wrote |-> FALSE]

\* The open-with callbacks and the one call of complete_app_setup.
Callbacks == 1..NumCallbacks
Setup == NumCallbacks + 1

\* static PENDING_FILES = Mutex::new(Vec::new()); static SENDER = Mutex::new(None)
\* mutex holds the owner of each Mutex (None: free); ow the position of each
\* call, the paths it has still to handle and how many it was given (for
\* complete_app_setup: how many it flushed).
OpenWithInit ==
    /\ pending_files = <<>>
    /\ sender = FALSE
    /\ channel = <<>>
    /\ mutex = [pending |-> None, sender |-> None]
    /\ ow = [p \in Callbacks \cup {Setup} |-> [pc |-> "idle", todo |-> <<>>, asked |-> 0]]

RecentPaths == 1..NumRecentPaths

\* Settings::default(): no recent file.
RecentInit ==
    /\ recent_files = <<>>
    /\ added_at = [p \in RecentPaths |-> 0]
    /\ adds = 0
    /\ rf_calls = 0

\* enum TimeMessage { FocusUpdate(bool), Stop }
FocusUpdate(focused) == [type |-> "FocusUpdate", focused |-> focused]
Stop == [type |-> "Stop", focused |-> FALSE]

TbEvent(ev, focused, was, ret) == [ev |-> ev, focused |-> focused, was |-> was, ret |-> ret]

\* TimeBackend::new and the locals of time_tracking_loop before its loop.
\* instant is Instant::now() in milliseconds; tb_added is the sum of what the
\* loop has added to the counter, tb_taken the sum of what swap(0) returned.
TimeInit ==
    /\ tb_queue = <<>>
    /\ tb_running = TRUE
    /\ is_focused = FALSE
    /\ focus_start_time = 0
    /\ writing_time = 0
    /\ instant = 0
    /\ tb_added = 0
    /\ tb_taken = 0
    /\ tb_last = TbEvent("new", FALSE, FALSE, 0)

\* No document has been written and no save is under way.
AppInit ==
    /\ disk = <<>>
    /\ app_job = <<>>
    /\ app_last = [op |-> "none", path |-> None, content |-> None, wrote |-> FALSE,
                   ok |-> FALSE]

BackendInit ==
    /\ blobs = <<>>
    /\ ledgers = <<>>
    /\ xattr = <<>>
    /\ now = 0
    /\ uuid_ctr = 0
    /\ saves = <<>>
    /\ puts = {}
    /\ blob_writes = 0
    /\ faults = 0
    /\ last = Call("new", None, None, None, TRUE, "", NoId, None)
    /\ procs = [t \in Threads |-> Idle]

Init ==
    /\ BackendInit
    /\ AppInit
    /\ OpenWithInit
    /\ RecentInit
    /\ TimeInit

\* A save that starts the record afresh when it cannot parse it.
Save_resetting(path, content) ==
    /\ Len(saves) < MaxSaves
    /\ \E o \in save(blobs, ledgers, xattr, uuid_ctr, path, content, MaxFaults - faults) :
        /\ o.ctr <= MaxTokens
        /\ faults' = faults + o.f
        /\ blobs' = o.blobs
        /\ ledgers' = IF o.err = "Json"
                      THEN [u \in DOMAIN ledgers |-> IF u = o.uuid THEN <<>> ELSE ledgers[u]]
                      ELSE o.ledgers
        /\ xattr' = o.xattr
        /\ uuid_ctr' = o.ctr
        /\ now' = o.now
        /\ saves' = IF o.ok THEN Append(saves, <<path, content, o.uuid>>) ELSE saves
        /\ puts' = IF o.put THEN puts \cup {content} ELSE puts
        /\ blob_writes' = IF o.wrote THEN blob_writes + 1 ELSE blob_writes
        /\ last' = Call("save", path, content, calculate_hash(content), o.ok, o.err, o, None)
        /\ UNCHANGED <<procs, uiVars>>

Save(path, content) ==
    /\ Len(saves) < MaxSaves
    /\ \E o \in save(blobs, ledgers, xattr, uuid_ctr, path, content, MaxFaults - faults) :
        /\ o.ctr <= MaxTokens
        /\ faults' = faults + o.f
        /\ blobs' = o.blobs
        /\ ledgers' = o.ledgers
        /\ xattr' = o.xattr
        /\ uuid_ctr' = o.ctr
        /\ now' = o.now
        /\ saves' = IF o.ok THEN Append(saves, <<path, content, o.uuid>>) ELSE saves
        /\ puts' = IF o.put THEN puts \cup {content} ELSE puts
        /\ blob_writes' = IF o.wrote THEN blob_writes + 1 ELSE blob_writes
        /\ last' = Call("save", path, content, calculate_hash(content), o.ok, o.err, o, None)
        /\ UNCHANGED <<procs, uiVars>>

SaveBlob(content) ==
    \E o \in Within(save_blob(blobs, calculate_hash(content), content), MaxFaults - faults) :
        /\ faults' = faults + o.f
        /\ blobs' = o.blobs
        /\ puts' = IF o.ok THEN puts \cup {content} ELSE puts
        /\ blob_writes' = IF o.wrote THEN blob_writes + 1 ELSE blob_writes
        /\ last' = Call("save_blob", None, content, calculate_hash(content), o.ok,
                        IF o.ok THEN "" ELSE "Io", NoId, None)
        /\ UNCHANGED <<ledgers, xattr, now, uuid_ctr, saves, procs, uiVars>>

\* A get_uuid that resolves the token by running the whole save.
GetUuid_saving(path, content) ==
    \E o \in save(blobs, ledgers, xattr, uuid_ctr, path, content, MaxFaults - faults) :
        /\ o.ctr <= MaxTokens
        /\ o.ok
        /\ faults' = faults + o.f
        /\ blobs' = o.blobs
        /\ ledgers' = o.ledgers
        /\ xattr' = o.xattr
        /\ uuid_ctr' = o.ctr
        /\ now' = o.now
        /\ puts' = puts \cup {content}
        /\ blob_writes' = IF o.wrote THEN blob_writes + 1 ELSE blob_writes
        /\ last' = Call("get_uuid", path, content, calculate_hash(content), TRUE, "", o, None)
        /\ UNCHANGED <<saves, procs, uiVars>>

GetUuid(path, content) ==
    \E o \in get_uuid(xattr, ledgers, uuid_ctr, path, content, MaxFaults - faults) :
        /\ o.ctr <= MaxTokens
        /\ faults' = faults + o.f
        /\ xattr' = o.xattr
        /\ uuid_ctr' = o.ctr
        /\ last' = Call("get_uuid", path, content, calculate_hash(content), TRUE, "", o, None)
        /\ UNCHANGED <<blobs, ledgers, now, saves, puts, blob_writes, procs, uiVars>>

LoadHistory(path) ==
    \E o \in load_history(ledgers, xattr, path, MaxFaults - faults) :
        /\ faults' = faults + o.f
        /\ last' = Call("load_history", path, None, None, o.ok, o.err,
                        [NoId EXCEPT !.uuid = o.uuid, !.meta = o.meta], o.entries)
        /\ UNCHANGED <<blobs, ledgers, xattr, now, uuid_ctr, saves, puts, blob_writes, procs, uiVars>>

RestoreVersion(hash) ==
    \E o \in Within(restore_version(blobs, hash), MaxFaults - faults) :
        /\ faults' = faults + o.f
        /\ last' = Call("restore_version", None, None, hash, o.ok, o.err, NoId, o.content)
        /\ UNCHANGED <<blobs, ledgers, xattr, now, uuid_ctr, saves, puts, blob_writes, procs, uiVars>>

Next ==
    \/ \E path \in Paths, content \in Contents : Save(path, content)
    \/ \E content \in Contents : SaveBlob(content)
    \/ \E path \in Paths, content \in Contents : GetUuid(path, content)
    \/ \E path \in Paths : LoadHistory(path)
    \/ \E hash \in 0..HashSpace : RestoreVersion(hash)

Spec == Init /\ [][Next]_vars

\* ------------------------------------------------- concurrent saves
\* try_save_file runs backend.save on a thread of its own, with no lock around
\* it: the saves of two threads interleave at every file-system call.  Each
\* action below is one such call of save, run by thread t without failure.
\* The contents saved here have pairwise distinct hashes.
ConcContents == {c \in Contents : c <= HashSpace}

\* save is called: hash = calculate_hash(content).
Begin(t, path, content) ==
    /\ procs[t].pc = "idle"
    /\ procs' = [procs EXCEPT ![t] = [Idle EXCEPT !.pc = "exists", !.path = path,
                                       !.content = content,
                                       !.hash = calculate_hash(content)]]
    /\ UNCHANGED <<blobs, ledgers, xattr, now, uuid_ctr, saves, puts, blob_writes, faults, last, uiVars>>

\* save_blob: `if !blob_path.exists()`; when the file is there, Ok(()) at once.
BlobExists(t) ==
    /\ procs[t].pc = "exists"
    /\ IF procs[t].hash \in DOMAIN blobs
       THEN /\ procs' = [procs EXCEPT ![t].pc = "resolve"]
            /\ puts' = puts \cup {procs[t].content}
       ELSE /\ procs' = [procs EXCEPT ![t].pc = "create"]
            /\ puts' = puts
    /\ UNCHANGED <<blobs, ledgers, xattr, now, uuid_ctr, saves, blob_writes, faults, last, uiVars>>

\* fs::write, first half: File::create opens the blob file, creating it or
\* truncating it to the empty file.
BlobCreate(t) ==
    /\ procs[t].pc = "create"
    /\ blobs' = [h \in DOMAIN blobs \cup {procs[t].hash} |->
                    IF h = procs[t].hash THEN None ELSE blobs[h]]
    /\ procs' = [procs EXCEPT ![t].pc = "write"]
    /\ UNCHANGED <<ledgers, xattr, now, uuid_ctr, saves, puts, blob_writes, faults, last, uiVars>>

\* fs::write, second half: write_all puts the content in the file.
BlobWrite(t) ==
    /\ procs[t].pc = "write"
    /\ blobs' = [h \in DOMAIN blobs \cup {procs[t].hash} |->
                    IF h = procs[t].hash THEN procs[t].content ELSE blobs[h]]
    /\ procs' = [procs EXCEPT ![t].pc = "resolve", ![t].wrote = TRUE]
    /\ puts' = puts \cup {procs[t].content}
    /\ blob_writes' = blob_writes + 1
    /\ UNCHANGED <<ledgers, xattr, now, uuid_ctr, saves, faults, last, uiVars>>

\* let uuid = self.get_or_create_file_id(file_path, &hash)?
ResolveId(t) ==
    /\ procs[t].pc = "resolve"
    /\ \E o \in get_or_create_file_id(xattr, ledgers, uuid_ctr, procs[t].path,
                                      procs[t].hash, 0) :
        /\ o.ctr <= MaxTokens
        /\ xattr' = o.xattr
        /\ uuid_ctr' = o.ctr
        /\ procs' = [procs EXCEPT ![t].pc = "load", ![t].uuid = o.uuid]
    /\ UNCHANGED <<blobs, ledgers, now, saves, puts, blob_writes, faults, last, uiVars>>

\* let mut history = self.load_history_by_uuid(&uuid)?
LoadLedger(t) ==
    /\ procs[t].pc = "load"
    /\ \E h \in Within(load_history_by_uuid(ledgers, procs[t].uuid), 0) :
        procs' = [procs EXCEPT ![t].pc = "store", ![t].history = h.entries]
    /\ UNCHANGED <<blobs, ledgers, xattr, now, uuid_ctr, saves, puts, blob_writes, faults, last, uiVars>>

\* A last step of save that pushes onto the record as it is when it writes.
StoreLedger_reloading(t) ==
    /\ procs[t].pc = "store"
    /\ LET p == procs[t]
           history == push(LedgerOf(ledgers, p.uuid), HistoryEntry(p.hash, Utc_now, p.path))
       IN \E w \in Within(save_history(ledgers, p.uuid, history), 0) :
            /\ ledgers' = w.ledgers
            /\ now' = Utc_now
            /\ saves' = Append(saves, <<p.path, p.content, p.uuid>>)
            /\ last' = Call("save", p.path, p.content, p.hash, TRUE, "",
                            [NoId EXCEPT !.uuid = p.uuid], None)
    /\ procs' = [procs EXCEPT ![t].pc = "done"]
    /\ UNCHANGED <<blobs, xattr, uuid_ctr, puts, blob_writes, faults, uiVars>>

\* history.push(HistoryEntry {..}); self.save_history(&uuid, &history)?; Ok(())
StoreLedger(t) ==
    /\ procs[t].pc = "store"
    /\ LET p == procs[t]
           history == push(p.history, HistoryEntry(p.hash, Utc_now, p.path))
       IN \E w \in Within(save_history(ledgers, p.uuid, history), 0) :
            /\ ledgers' = w.ledgers
            /\ now' = Utc_now
            /\ saves' = Append(saves, <<p.path, p.content, p.uuid>>)
            /\ last' = Call("save", p.path, p.content, p.hash, TRUE, "",
                            [NoId EXCEPT !.uuid = p.uuid], None)
    /\ procs' = [procs EXCEPT ![t].pc = "done"]
    /\ UNCHANGED <<blobs, xattr, uuid_ctr, puts, blob_writes, faults, uiVars>>

NextConc ==
    \/ \E t \in Threads, path \in Paths, content \in ConcContents : Begin(t, path, content)
    \/ \E t \in Threads : BlobExists(t)
    \/ \E t \in Threads : BlobCreate(t)
    \/ \E t \in Threads : BlobWrite(t)
    \/ \E t \in Threads : ResolveId(t)
    \/ \E t \in Threads : LoadLedger(t)
    \/ \E t \in Threads : StoreLedger(t)

SpecConc == Init /\ [][NextConc]_vars

\* ------------------------------------------------- a wall clock set back
\* Utc::now() reads the system's wall clock, which is not monotonic: it can be
\* set back (by the user, by a time synchronisation), and then a later save
\* reads an instant an earlier save has read.
ClockSetBack ==
    /\ now > 0
    /\ now' = now - 1
    /\ UNCHANGED <<blobs, ledgers, xattr, uuid_ctr, saves, puts, blob_writes, faults, last, procs, uiVars>>

NextTies ==
    \/ \E path \in Paths, content \in Contents : Save(path, content)
    \/ \E path \in Paths, content \in Contents : GetUuid(path, content)
    \/ ClockSetBack

SpecTies == Init /\ [][NextTies]_vars

\* ------------------------------------------------- the application's save path
\* save_file and the thread of try_save_file: std::fs::write(&path, &content),
\* return on Err, then backend.save(&path, &content, ..).  The two calls are two
\* steps.  std::fs::write creates or truncates the file and then writes: when
\* it fails the file is as it was (open failed) or holds less than the content
\* (None stands for a truncated file).
fs_write(d, path, content) ==
    LET With(c) == [p \in DOMAIN d \cup {path} |-> IF p = path THEN c ELSE d[p]]
    IN { [ok |-> TRUE, disk |-> With(content), f |-> 0],
         [ok |-> FALSE, disk |-> d, f |-> 1],
         [ok |-> FALSE, disk |-> With(None), f |-> 1] }

\* A raw write whose error is logged and not returned on.
AppRawWrite_unchecked(path, content) ==
    /\ app_job = <<>>
    /\ Len(saves) < MaxSaves
    /\ \E w \in Within(fs_write(disk, path, content), MaxFaults - faults) :
        /\ disk' = w.disk
        /\ faults' = faults + w.f
        /\ app_job' = <<path, content>>
        /\ app_last' = [op |-> "write", path |-> path, content |-> content,
                        wrote |-> w.ok, ok |-> FALSE]
    /\ UNCHANGED <<blobs, ledgers, xattr, now, uuid_ctr, saves, puts, blob_writes, last, procs,
                   owVars, rfVars, tbVars>>

\* if let Err(e) = std::fs::write(&path, &content) { ..; return; }
AppRawWrite(path, content) ==
    /\ app_job = <<>>
    /\ Len(saves) < MaxSaves
    /\ \E w \in Within(fs_write(disk, path, content), MaxFaults - faults) :
        /\ disk' = w.disk
        /\ faults' = faults + w.f
        /\ app_job' = IF w.ok THEN <<path, content>> ELSE <<>>
        /\ app_last' = [op |-> "write", path |-> path, content |-> content,
                        wrote |-> w.ok, ok |-> FALSE]
    /\ UNCHANGED <<blobs, ledgers, xattr, now, uuid_ctr, saves, puts, blob_writes, last, procs,
                   owVars, rfVars, tbVars>>

\* let result = backend.save(&path, &content, ..); an Err is logged or sent on.
AppBackendSave ==
    /\ app_job # <<>>
    /\ LET path == app_job[1]
           content == app_job[2]
       IN \E o \in save(blobs, ledgers, xattr, uuid_ctr, path, content, MaxFaults - faults) :
            /\ o.ctr <= MaxTokens
            /\ faults' = faults + o.f
            /\ blobs' = o.blobs
            /\ ledgers' = o.ledgers
            /\ xattr' = o.xattr
            /\ uuid_ctr' = o.ctr
            /\ now' = o.now
            /\ saves' = IF o.ok THEN Append(saves, <<path, content, o.uuid>>) ELSE saves
            /\ puts' = IF o.put THEN puts \cup {content} ELSE puts
            /\ blob_writes' = IF o.wrote THEN blob_writes + 1 ELSE blob_writes
            /\ last' = Call("save", path, content, calculate_hash(content), o.ok, o.err, o,
                            None)
            /\ app_last' = [op |-> "backend", path |-> path, content |-> content,
                            wrote |-> app_last.wrote, ok |-> o.ok]
    /\ app_job' = <<>>
    /\ UNCHANGED <<disk, procs, owVars, rfVars, tbVars>>

NextApp ==
    \/ \E path \in Paths, content \in Contents : AppRawWrite(path, content)
    \/ AppBackendSave

SpecApp == Init /\ [][NextApp]_vars

\* ------------------------------------------------------- open-with delivery
\* The n-th path of callback c is <<c, n>>.
OwStep(p, pc, todo, asked) == [ow EXCEPT ![p] = [pc |-> pc, todo |-> todo, asked |-> asked]]

OwOthers == <<backendVars, appVars, rfVars, tbVars>>

\* handle_open_file: one filename.
HandleOpenFile(c) ==
    /\ ow[c].pc = "idle"
    /\ ow' = OwStep(c, "lock_pending", << <<c, 1>> >>, 1)
    /\ UNCHANGED <<pending_files, sender, channel, mutex, OwOthers>>

\* handle_open_files: the filenames of an NSArray.
HandleOpenFiles(c, n) ==
    /\ ow[c].pc = "idle"
    /\ ow' = OwStep(c, "lock_pending", [i \in 1..n |-> <<c, i>>], n)
    /\ UNCHANGED <<pending_files, sender, channel, mutex, OwOthers>>

\* let mut pending_lock = PENDING_FILES.lock().unwrap();
LockPending(c) ==
    /\ ow[c].pc = "lock_pending"
    /\ mutex.pending = None
    /\ mutex' = [mutex EXCEPT !.pending = c]
    /\ ow' = OwStep(c, "lock_sender", ow[c].todo, ow[c].asked)
    /\ UNCHANGED <<pending_files, sender, channel, OwOthers>>

\* let sender_lock = SENDER.lock().unwrap();
LockSender(c) ==
    /\ ow[c].pc = "lock_sender"
    /\ mutex.sender = None
    /\ mutex' = [mutex EXCEPT !.sender = c]
    /\ ow' = OwStep(c, "deliver", ow[c].todo, ow[c].asked)
    /\ UNCHANGED <<pending_files, sender, channel, OwOthers>>

\* A callback that buffers whatever SENDER holds.
Deliver_buffering(c) ==
    /\ ow[c].pc = "deliver"
    /\ ow[c].todo # <<>>
    /\ pending_files' = Append(pending_files, Head(ow[c].todo))
    /\ ow' = OwStep(c, "deliver", Tail(ow[c].todo), ow[c].asked)
    /\ UNCHANGED <<channel, sender, mutex, OwOthers>>

\* if let Some(s) = &*sender_lock { s.send(OpenFile(path)) } else { pending_lock.push(path) }
Deliver(c) ==
    /\ ow[c].pc = "deliver"
    /\ ow[c].todo # <<>>
    /\ IF sender
         THEN channel' = Append(channel, Head(ow[c].todo)) /\ UNCHANGED pending_files
         ELSE pending_files' = Append(pending_files, Head(ow[c].todo)) /\ UNCHANGED channel
    /\ ow' = OwStep(c, "deliver", Tail(ow[c].todo), ow[c].asked)
    /\ UNCHANGED <<sender, mutex, OwOthers>>

\* The guards go at the end of the callback: sender_lock, then pending_lock.
UnlockSender(c) ==
    /\ ow[c].pc = "deliver"
    /\ ow[c].todo = <<>>
    /\ mutex' = [mutex EXCEPT !.sender = None]
    /\ ow' = OwStep(c, "unlock_pending", <<>>, ow[c].asked)
    /\ UNCHANGED <<pending_files, sender, channel, OwOthers>>

UnlockPending(c) ==
    /\ ow[c].pc = "unlock_pending"
    /\ mutex' = [mutex EXCEPT !.pending = None]
    /\ ow' = OwStep(c, "done", <<>>, ow[c].asked)
    /\ UNCHANGED <<pending_files, sender, channel, OwOthers>>

\* complete_app_setup: if let Ok(mut s) = SENDER.lock() {
SetupLockSender ==
    /\ ow[Setup].pc = "idle"
    /\ mutex.sender = None
    /\ mutex' = [mutex EXCEPT !.sender = Setup]
    /\ ow' = OwStep(Setup, "set", <<>>, 0)
    /\ UNCHANGED <<pending_files, sender, channel, OwOthers>>

\* *s = Some(sender.clone()); }
SetSender ==
    /\ ow[Setup].pc = "set"
    /\ sender' = TRUE
    /\ mutex' = [mutex EXCEPT !.sender = None]
    /\ ow' = OwStep(Setup, "lock_pending", <<>>, 0)
    /\ UNCHANGED <<pending_files, channel, OwOthers>>

\* if let Ok(mut pending) = PENDING_FILES.lock()
SetupLockPending ==
    /\ ow[Setup].pc = "lock_pending"
    /\ mutex.pending = None
    /\ mutex' = [mutex EXCEPT !.pending = Setup]
    /\ ow' = OwStep(Setup, "flush", <<>>, 0)
    /\ UNCHANGED <<pending_files, sender, channel, OwOthers>>

\* && !pending.is_empty() { for path in pending.drain(..) { sender.send(OpenFile(path)) } }
Flush ==
    /\ ow[Setup].pc = "flush"
    /\ channel' = channel \o pending_files
    /\ pending_files' = <<>>
    /\ mutex' = [mutex EXCEPT !.pending = None]
    /\ ow' = OwStep(Setup, "done", <<>>, Len(pending_files))
    /\ UNCHANGED <<sender, OwOthers>>

NextOpenWith ==
    \/ \E c \in Callbacks : HandleOpenFile(c)
    \/ \E c \in Callbacks, n \in 0..MaxFiles : HandleOpenFiles(c, n)
    \/ \E c \in Callbacks : LockPending(c)
    \/ \E c \in Callbacks : LockSender(c)
    \/ \E c \in Callbacks : Deliver(c)
    \/ \E c \in Callbacks : UnlockSender(c)
    \/ \E c \in Callbacks : UnlockPending(c)
    \/ SetupLockSender
    \/ SetSender
    \/ SetupLockPending
    \/ Flush

SpecOpenWith == Init /\ [][NextOpenWith]_vars

\* ------------------------------------------------------------ recent files
Min(a, b) == IF a < b THEN a ELSE b

\* An add_recent_file that does not remove the path first.
add_recent_file_no_retain(list, path) ==
    LET inserted == <<path>> \o list
    IN SubSeq(inserted, 1, Min(Len(inserted), MAX_RECENT_FILES))

\* recent_files.retain(|p| p != &path); .insert(0, path); .truncate(MAX_RECENT_FILES)
add_recent_file(list, path) ==
    LET retained == SelectSeq(list, LAMBDA p : p # path)
        inserted == <<path>> \o retained
    IN SubSeq(inserted, 1, Min(Len(inserted), MAX_RECENT_FILES))

\* The list after add_recent_file of the paths 1, 2, .. k in this order, for
\* every k up to MAX_RECENT_FILES: the settings a run starts with.
InitRecent ==
    /\ BackendInit
    /\ AppInit
    /\ OpenWithInit
    /\ TimeInit
    /\ \E k \in 0..Min(MAX_RECENT_FILES, NumRecentPaths) :
        /\ recent_files = [i \in 1..k |-> k + 1 - i]
        /\ added_at = [p \in RecentPaths |-> IF p <= k THEN p ELSE 0]
        /\ adds = k
    /\ rf_calls = 0

AddRecentFile(path) ==
    /\ rf_calls < MaxAdds
    /\ recent_files' = add_recent_file(recent_files, path)
    /\ adds' = adds + 1
    /\ added_at' = [added_at EXCEPT ![path] = adds + 1]
    /\ rf_calls' = rf_calls + 1
    /\ UNCHANGED <<backendVars, appVars, owVars, tbVars>>

NextRecent == \E path \in RecentPaths : AddRecentFile(path)

SpecRecent == InitRecent /\ [][NextRecent]_vars

\* ------------------------------------------------------------ writing time
TbOthers == <<backendVars, appVars, owVars, rfVars>>

\* Drop has sent Stop: the TimeBackend is gone.
TbDropped == ~tb_running \/ \E i \in 1..Len(tb_queue) : tb_queue[i] = Stop

\* A loop that starts the interval again at every FocusUpdate(true).
on_message_restarting(msg, focused_before, start, t) ==
    IF msg.type = "FocusUpdate"
      THEN [is_focused |-> msg.focused,
            focus_start_time |-> IF msg.focused THEN t ELSE start,
            elapsed_ms |-> IF ~msg.focused /\ focused_before THEN t - start ELSE 0,
            running |-> TRUE]
      ELSE [is_focused |-> focused_before,
            focus_start_time |-> start,
            elapsed_ms |-> IF focused_before THEN t - start ELSE 0,
            running |-> FALSE]

\* The match arms of time_tracking_loop for a received message, at instant t.
on_message(msg, focused_before, start, t) ==
    IF msg.type = "FocusUpdate"
      THEN [is_focused |-> msg.focused,
            focus_start_time |-> IF msg.focused /\ ~focused_before THEN t ELSE start,
            elapsed_ms |-> IF ~msg.focused /\ focused_before THEN t - start ELSE 0,
            running |-> TRUE]
      ELSE [is_focused |-> focused_before,
            focus_start_time |-> start,
            elapsed_ms |-> IF focused_before THEN t - start ELSE 0,
            running |-> FALSE]

\* Time passes.
Tick ==
    /\ instant < MaxTicks * TickMs
    /\ instant' = instant + TickMs
    /\ UNCHANGED <<tb_queue, tb_running, is_focused, focus_start_time, writing_time,
                   tb_added, tb_taken, tb_last, TbOthers>>

\* update_focus: self.sender.send(TimeMessage::FocusUpdate(focused))
UpdateFocus(focused) ==
    /\ ~TbDropped
    /\ Len(tb_queue) < MaxQueue
    /\ tb_queue' = Append(tb_queue, FocusUpdate(focused))
    /\ UNCHANGED <<tb_running, is_focused, focus_start_time, writing_time, instant,
                   tb_added, tb_taken, tb_last, TbOthers>>

\* Drop: self.sender.send(TimeMessage::Stop)
DropBackend ==
    /\ ~TbDropped
    /\ tb_queue' = Append(tb_queue, Stop)
    /\ UNCHANGED <<tb_running, is_focused, focus_start_time, writing_time, instant,
                   tb_added, tb_taken, tb_last, TbOthers>>

\* recv_timeout returns Ok(message): fetch_add of the elapsed time, or break.
Recv ==
    /\ tb_running
    /\ tb_queue # <<>>
    /\ LET msg == Head(tb_queue)
           r == on_message(msg, is_focused, focus_start_time, instant)
       IN /\ is_focused' = r.is_focused
          /\ focus_start_time' = r.focus_start_time
          /\ writing_time' = writing_time + r.elapsed_ms
          /\ tb_added' = tb_added + r.elapsed_ms
          /\ tb_running' = r.running
          /\ tb_last' = TbEvent(msg.type, msg.focused, is_focused, r.elapsed_ms)
    /\ tb_queue' = Tail(tb_queue)
    /\ UNCHANGED <<instant, tb_taken, TbOthers>>

\* recv_timeout returns Err: no action.
RecvTimeout ==
    /\ tb_running
    /\ tb_queue = <<>>
    /\ tb_last' = TbEvent("Timeout", FALSE, is_focused, 0)
    /\ UNCHANGED <<tb_queue, tb_running, is_focused, focus_start_time, writing_time, instant,
                   tb_added, tb_taken, TbOthers>>

\* get_and_reset_writing_time: writing_time.swap(0, Relaxed) / 1000
GetAndResetWritingTime ==
    /\ ~TbDropped
    /\ writing_time' = 0
    /\ tb_taken' = tb_taken + writing_time
    /\ tb_last' = TbEvent("get_and_reset_writing_time", FALSE, is_focused, writing_time \div 1000)
    /\ UNCHANGED <<tb_queue, tb_running, is_focused, focus_start_time, instant, tb_added,
                   TbOthers>>

\* get_writing_time: writing_time.load(Relaxed) / 1000
GetWritingTime ==
    /\ ~TbDropped
    /\ tb_last' = TbEvent("get_writing_time", FALSE, is_focused, writing_time \div 1000)
    /\ UNCHANGED <<tb_queue, tb_running, is_focused, focus_start_time, writing_time, instant,
                   tb_added, tb_taken, TbOthers>>

NextTime ==
    \/ Tick
    \/ \E focused \in BOOLEAN : UpdateFocus(focused)
    \/ DropBackend
    \/ Recv
    \/ RecvTimeout
    \/ GetAndResetWritingTime
    \/ GetWritingTime

SpecTime == Init /\ [][NextTime]_vars

\* ================================================================ claims
\* The step is a call of save, of get_uuid, ... : every action names itself in last'.
IsCall(ops) == last'.op \in ops

\* C1: a blob, once written for a hash, keeps its content and is never removed,
\* and a save or save_blob whose hash already has a blob writes no blob file.
C1_BlobWriteOnce ==
    [][ /\ \A h \in DOMAIN blobs : h \in DOMAIN blobs' /\ blobs'[h] = blobs[h]
        /\ (IsCall({"save", "save_blob"}) /\ last'.hash \in DOMAIN blobs)
              => blob_writes' = blob_writes
        /\ blob_writes' = Cardinality(DOMAIN blobs') ]_vars

\* A save that returned Ok met the blob another content of the same hash had left.
C1_Witness ==
    /\ last.op = "save" /\ last.ok
    /\ last.hash \in DOMAIN blobs
    /\ blobs[last.hash] # last.content
    /\ blob_writes = 1

C3_SaveAppendsOne ==
    [][ (IsCall({"save"}) /\ saves' # saves) =>
            /\ last'.ok
            /\ last'.uuid \in DOMAIN ledgers'
            /\ ledgers'[last'.uuid] =
                  Append(LedgerOf(ledgers, last'.uuid),
                         HistoryEntry(calculate_hash(last'.content), now', last'.path))
            /\ Len(ledgers'[last'.uuid]) = Len(LedgerOf(ledgers, last'.uuid)) + 1 ]_vars

\* The same content was saved twice in a row to one file and the ledger holds both.
C3_Witness ==
    /\ last.op = "save" /\ last.ok
    /\ Len(saves) >= 2
    /\ saves[Len(saves)][1] = saves[Len(saves) - 1][1]
    /\ saves[Len(saves)][2] = saves[Len(saves) - 1][2]
    /\ saves[Len(saves)][3] = saves[Len(saves) - 1][3]
    /\ Len(ledgers[last.uuid]) >= 2
    /\ ledgers[last.uuid][Len(ledgers[last.uuid])].hash
          = ledgers[last.uuid][Len(ledgers[last.uuid]) - 1].hash

\* C4: when the metadata read finds a token attached to the file, save and
\* get_uuid resolve to exactly that token, whatever the hash and the ledgers:
\* no history search, no new token, no write of the attribute.  A call that
\* meets no I/O failure on a file with a token attached is such a call.
C4_AttachedFirst ==
    [][ (/\ IsCall({"save", "get_uuid"})
         /\ last'.path \in DOMAIN xattr
         /\ (faults' = faults \/ last'.meta = "some" \/ last'.how = "attached"))
        => /\ last'.uuid = xattr[last'.path]
           /\ last'.how = "attached"
           /\ last'.meta = "some"
           /\ last'.search = "none"
           /\ xattr' = xattr
           /\ uuid_ctr' = uuid_ctr ]_vars

\* get_uuid returned the attached token although another ledger holds the hash
\* asked for and the attached token's ledger does not.
C4_Witness ==
    /\ last.op = "get_uuid" /\ last.how = "attached"
    /\ last.path \in DOMAIN xattr /\ xattr[last.path] = last.uuid
    /\ \E u \in DOMAIN ledgers : u # last.uuid /\ HasMatch(ledgers[u], last.hash)
    /\ ~HasMatch(LedgerOf(ledgers, last.uuid), last.hash)

\* The tokens whose ledger holds an entry of the greatest timestamp among all
\* the entries, of all ledgers, that carry the hash.
LatestOwners(ls, hash) ==
    LET M == UNION {{<<u, i>> : i \in {j \in 1..Len(ls[u]) : ls[u][j].hash = hash}} :
                       u \in DOMAIN ls}
    IN {m[1] : m \in {n \in M : \A o \in M :
                         ls[o[1]][o[2]].timestamp <= ls[n[1]][n[2]].timestamp}}

\* C5: the token the fallback search returns owns the most recent entry, over
\* every entry of every ledger, that carries the hash.
C5_FallbackMostRecentEntry ==
    [][ (/\ IsCall({"save", "get_uuid"})
         /\ last'.how = "fallback"
         /\ last'.search = "clean")
        => last'.uuid \in LatestOwners(ledgers, last'.hash) ]_vars

\* What a save of file `path` pushes onto the ledger it resolved.
Pushed == HistoryEntry(last'.hash, now', last'.path)

Latest(entries) == entries[Len(entries)]

\* The step is a save that returned Ok on a file that carried no token.
FreshFileSaved ==
    /\ IsCall({"save"}) /\ saves' # saves
    /\ last'.path \notin DOMAIN xattr

C7_MintLastResort ==
    [][ (IsCall({"save", "get_uuid"}) /\ last'.how = "minted")
        => /\ last'.path \notin DOMAIN xattr \/ last'.meta = "err"
           /\ \A u \in DOMAIN ledgers : ~HasMatch(ledgers[u], last'.hash)
           /\ last'.uuid \notin DOMAIN ledgers ]_vars

\* C8: all the saves of one file that returned Ok resolved to one token.
C8_IdentityStable ==
    \A i, j \in 1..Len(saves) : saves[i][1] = saves[j][1] => saves[i][3] = saves[j][3]

\* C9: after exactly the saves A, B, A of one file, its history is the three
\* entries [H(A), H(B), H(A)], read through the attached token or, when none is
\* attached, through the token find_uuid_by_hash(H(A)) returns.
C9_ThreeSaves ==
    \A p \in Paths : \A A, B \in Contents :
        (/\ A # B
         /\ Len(saves) = 3
         /\ \A i \in 1..3 : saves[i][1] = p
         /\ saves[1][2] = A /\ saves[2][2] = B /\ saves[3][2] = A)
        => LET want == <<calculate_hash(A), calculate_hash(B), calculate_hash(A)>> IN
           /\ p \in DOMAIN xattr => HashesOf(LedgerOf(ledgers, xattr[p])) = want
           /\ p \notin DOMAIN xattr =>
                \A o \in find_uuid_by_hash(ledgers, calculate_hash(A)) :
                    o.f = 0 => o.ok /\ HashesOf(ledgers[o.uuid]) = want

NothingWritten ==
    /\ blobs' = blobs /\ ledgers' = ledgers /\ xattr' = xattr
    /\ uuid_ctr' = uuid_ctr /\ now' = now /\ blob_writes' = blob_writes

\* C11: restore_version of a hash that has no blob returns the not-found error
\* (InvalidHash "Blob not found"), no content, and writes nothing.
C11_MissingRestore ==
    [][ (IsCall({"restore_version"}) /\ last'.hash \notin DOMAIN blobs)
        => /\ ~last'.ok
           /\ last'.err = "InvalidHash"
           /\ last'.text = None
           /\ faults' = faults
           /\ NothingWritten ]_vars

\* A restore of a hash without a blob, in a store that holds other blobs.
C11_Witness ==
    /\ last.op = "restore_version" /\ ~last.ok /\ last.err = "InvalidHash"
    /\ last.hash \notin DOMAIN blobs
    /\ blobs # <<>> /\ ledgers # <<>> /\ xattr # <<>>

\* C12: load_history of a file that carries no token returns the not-found
\* error (FileNotFound), whatever the ledgers hold, and writes nothing.
C12_LoadHistoryStrict ==
    [][ (IsCall({"load_history"}) /\ last'.path \notin DOMAIN xattr)
        => /\ ~last'.ok
           /\ last'.err = "FileNotFound"
           /\ NothingWritten ]_vars

\* C13: a token without a ledger record has the empty history: load_history that
\* read such a token returns Ok(empty), and a save that returned Ok for such a
\* token (a newly minted one among them) leaves a ledger of exactly one entry.
C13_NoRecordIsEmpty ==
    [][ /\ (IsCall({"load_history"}) /\ last'.meta = "some"
              /\ last'.uuid \notin DOMAIN ledgers)
           => last'.ok /\ last'.text = <<>> /\ faults' = faults
        /\ (IsCall({"save"}) /\ saves' # saves /\ last'.uuid \notin DOMAIN ledgers)
           => /\ last'.uuid \in DOMAIN ledgers'
              /\ ledgers'[last'.uuid] = <<Pushed>>
        /\ (IsCall({"save"}) /\ saves' # saves /\ last'.how = "minted")
           => last'.uuid \notin DOMAIN ledgers ]_vars

\* load_history of a file whose token get_uuid minted, read while other tokens
\* have ledgers.
C13_Witness ==
    /\ last.op = "load_history" /\ last.ok /\ last.text = <<>>
    /\ last.path \in DOMAIN xattr /\ xattr[last.path] = last.uuid
    /\ last.uuid \notin DOMAIN ledgers
    /\ ledgers # <<>>

\* C14: a save or get_uuid whose attribute write failed returns what the run with
\* the write succeeding returns, the same token, the same blobs and ledgers, and
\* the failure alone never makes it return an error.
C14_AttachNonFatal ==
    [][ (IsCall({"save", "get_uuid"}) /\ last'.attach = "failed")
        => /\ xattr' = xattr
           /\ faults' = faults + 1 => last'.ok
           /\ IF last'.op = "save"
              THEN \E o \in save(blobs, ledgers, xattr, uuid_ctr, last'.path,
                                last'.content, MaxFaults) :
                      /\ o.attach = "ok" /\ o.f = faults' - faults - 1
                      /\ o.ok = last'.ok /\ o.err = last'.err
                      /\ o.uuid = last'.uuid /\ o.how = last'.how
                      /\ o.blobs = blobs' /\ o.ledgers = ledgers'
                      /\ o.ctr = uuid_ctr' /\ o.now = now'
              ELSE \E o \in get_uuid(xattr, ledgers, uuid_ctr, last'.path,
                                    last'.content, MaxFaults) :
                      /\ o.attach = "ok" /\ o.f = faults' - faults - 1
                      /\ o.uuid = last'.uuid /\ o.how = last'.how
                      /\ o.ctr = uuid_ctr'
                      /\ blobs' = blobs /\ ledgers' = ledgers ]_vars

\* A save that found the token by the history search, could not attach it, and
\* returned Ok with its entry appended to that token's ledger.
C14_Witness ==
    /\ last.op = "save" /\ last.ok /\ last.attach = "failed" /\ last.how = "fallback"
    /\ last.path \notin DOMAIN xattr
    /\ Len(ledgers[last.uuid]) = 2

\* The attributes with the one of file `path` removed.
WithoutToken(xa, path) == [p \in DOMAIN xa \ {path} |-> xa[p]]

\* C15: a save or get_uuid whose attribute read failed goes on to the history
\* search and then to minting, returns what it returns for the same file with
\* no token, and the failure alone never makes it return an error.
C15_ReadFailureIsAbsent ==
    [][ (IsCall({"save", "get_uuid"}) /\ last'.meta = "err")
        => /\ last'.how \in {"fallback", "minted"}
           /\ last'.search # "none"
           /\ faults' = faults + 1 => last'.ok
           /\ LET xa0 == WithoutToken(xattr, last'.path) IN
              IF last'.op = "save"
              THEN \E o \in save(blobs, ledgers, xa0, uuid_ctr, last'.path,
                                last'.content, MaxFaults) :
                      /\ o.meta = "absent" /\ o.f = faults' - faults - 1
                      /\ o.ok = last'.ok /\ o.err = last'.err
                      /\ o.uuid = last'.uuid /\ o.how = last'.how
                      /\ o.search = last'.search /\ o.attach = last'.attach
                      /\ o.blobs = blobs' /\ o.ledgers = ledgers'
                      /\ o.ctr = uuid_ctr' /\ o.now = now'
                      /\ o.attach = "ok" => o.xattr = xattr'
              ELSE \E o \in get_uuid(xa0, ledgers, uuid_ctr, last'.path,
                                    last'.content, MaxFaults) :
                      /\ o.meta = "absent" /\ o.f = faults' - faults - 1
                      /\ o.uuid = last'.uuid /\ o.how = last'.how
                      /\ o.search = last'.search /\ o.attach = last'.attach
                      /\ o.ctr = uuid_ctr'
                      /\ o.attach = "ok" => o.xattr = xattr' ]_vars

\* A save whose attribute read failed found the token by the history search.
C15_Witness ==
    /\ last.op = "save" /\ last.ok /\ last.meta = "err" /\ last.how = "fallback"
    /\ Len(ledgers[last.uuid]) = 2

\* C16: a load_history whose attribute read failed reports the not-found
\* condition of a missing token, never an I/O error.
C16_LoadHistoryReadFailureIsAbsent ==
    [][ (IsCall({"load_history"}) /\ last'.meta = "err")
        => ~last'.ok /\ last'.err = "FileNotFound" ]_vars

\* C17: get_uuid leaves every blob and every ledger record as it was, and of the
\* attributes changes at most the token of the file it was called for.
C17_GetUuidNoPersistence ==
    [][ IsCall({"get_uuid"})
        => /\ blobs' = blobs /\ ledgers' = ledgers
           /\ now' = now /\ blob_writes' = blob_writes
           /\ WithoutToken(xattr', last'.path) = WithoutToken(xattr, last'.path)
           /\ last'.path \in DOMAIN xattr' =>
                 \/ xattr'[last'.path] = last'.uuid
                 \/ last'.path \in DOMAIN xattr /\ xattr'[last'.path] = xattr[last'.path] ]_vars

\* get_uuid minted and attached a token in a store that holds blobs and ledgers;
\* the token has no ledger record.
C17_Witness ==
    /\ last.op = "get_uuid" /\ last.how = "minted" /\ last.attach = "ok"
    /\ xattr[last.path] = last.uuid
    /\ last.uuid \notin DOMAIN ledgers
    /\ blobs # <<>> /\ ledgers # <<>>

\* C20: a save that met an I/O or serialization failure in the blob write, in the
\* history search (listing the directory, reading a record), in loading the
\* token's ledger or in writing it returns a typed error.  The attribute read
\* and write are the two failures a save is meant to survive.
C20_ErrorsPropagate ==
    [][ (/\ IsCall({"save"})
         /\ \/ last'.search = "faulty"
            \/ faults' > faults /\ last'.meta # "err" /\ last'.attach # "failed")
        => ~last'.ok /\ last'.err \in {"Io", "Json"} ]_vars

\* C21: the token the history search selects is fixed by the ledgers: a search
\* that met no failure can return no other token than the one it returned,
\* however the directory lists the records.
C21_TieBreakDeterministic ==
    [][ (IsCall({"save", "get_uuid"}) /\ last'.how = "fallback" /\ last'.search = "clean")
        => \A o \in find_uuid_by_hash(ledgers, last'.hash) :
              (o.ok /\ o.f = 0) => o.uuid = last'.uuid ]_vars

\* C23: a save that cannot parse the ledger record of the token it resolved
\* returns the serialization error (Json) and leaves every ledger record as it
\* was; the blob of the content, written before, is in the store.
C23_MalformedLedger ==
    [][ (IsCall({"save"}) /\ last'.err = "Json")
        => /\ ~last'.ok
           /\ last'.uuid \in DOMAIN ledgers
           /\ ledgers' = ledgers
           /\ saves' = saves /\ now' = now
           /\ last'.hash \in DOMAIN blobs' ]_vars

\* The failed save has written the blob of its content: no ledger has an entry
\* of that hash.
C23_Witness ==
    /\ last.op = "save" /\ ~last.ok /\ last.err = "Json"
    /\ last.hash \in DOMAIN blobs /\ blobs[last.hash] = last.content
    /\ Len(ledgers[last.uuid]) >= 1
    /\ \A u \in DOMAIN ledgers : ~HasMatch(ledgers[u], last.hash)

\* C24: a save creates or changes no ledger record but the one of the token it
\* resolved, and no entry is in the ledgers of two tokens.
C24_OneLedgerPerSave ==
    [][ IsCall({"save"})
        => /\ \A u \in DOMAIN ledgers \ {last'.uuid} :
                 u \in DOMAIN ledgers' /\ ledgers'[u] = ledgers[u]
           /\ DOMAIN ledgers' \subseteq DOMAIN ledgers \cup {last'.uuid}
           /\ \A u1, u2 \in DOMAIN ledgers' :
                 u1 # u2 => \A i \in 1..Len(ledgers'[u1]), j \in 1..Len(ledgers'[u2]) :
                               ledgers'[u1][i] # ledgers'[u2][j] ]_vars

\* A save appended to an existing ledger while another token has a ledger too.
C24_Witness ==
    /\ last.op = "save" /\ last.ok
    /\ Len(ledgers[last.uuid]) = 2
    /\ \E u \in DOMAIN ledgers : u # last.uuid /\ Len(ledgers[u]) >= 1

C26_ReferentialIntegrity ==
    \A u \in DOMAIN ledgers : \A i \in 1..Len(ledgers[u]) :
        ledgers[u][i].hash \in DOMAIN blobs

\* A save failed after its blob was written (the ledger write failed) and the
\* ledger it would have appended to holds entries.
C26_Witness ==
    /\ last.op = "save" /\ ~last.ok /\ last.err = "Io" /\ last.uuid # None
    /\ Len(LedgerOf(ledgers, last.uuid)) >= 1
    /\ ~HasMatch(ledgers[last.uuid], last.hash)
    /\ last.hash \in DOMAIN blobs

\* C27: a get_uuid that follows a get_uuid of the same path and content, with no
\* call between them, returns the same token.
C27_GetUuidStable ==
    [][ (/\ last.op = "get_uuid" /\ IsCall({"get_uuid"})
         /\ last'.path = last.path /\ last'.content = last.content)
        => last'.uuid = last.uuid ]_vars

\* ---- claims about the application's save path (SpecApp)
\* C22: backend.save runs only for a <<path, content>> that std::fs::write has
\* put in the file; it leaves the file as written, also when it fails; and a
\* failed raw write ends the save: nothing of the backend changes and no
\* backend.save follows.
C22_RawWriteFirst ==
    [][ /\ (app_job # <<>> /\ app_job' = <<>>)
           => /\ app_last.op = "write" /\ app_last.wrote
              /\ app_job[1] \in DOMAIN disk /\ disk[app_job[1]] = app_job[2]
              /\ disk' = disk
              /\ last'.path = app_job[1] /\ last'.content = app_job[2]
        /\ (app_job = <<>> /\ app_last' # app_last)
           => /\ app_last'.op = "write"
              /\ blobs' = blobs /\ ledgers' = ledgers /\ xattr' = xattr
              /\ saves' = saves /\ puts' = puts
              /\ ~app_last'.wrote => app_job' = <<>>
              /\ app_last'.wrote => /\ disk'[app_last'.path] = app_last'.content
                                    /\ app_job' = <<app_last'.path, app_last'.content>>
        /\ (blobs' # blobs \/ ledgers' # ledgers \/ xattr' # xattr)
           => app_job # <<>> /\ app_last.wrote ]_vars

\* backend.save has failed and the file holds the content written before it.
C22_Witness ==
    /\ app_last.op = "backend" /\ ~app_last.ok /\ app_last.wrote
    /\ disk[app_last.path] = app_last.content
    /\ \A u \in DOMAIN ledgers : \A i \in 1..Len(ledgers[u]) :
          ledgers[u][i].file_path = app_last.path
             => ledgers[u][i].hash # calculate_hash(app_last.content)
    /\ Len(saves) >= 1

\* ---- claims about open-with delivery (SpecOpenWith)
Count(seq, x) == Cardinality({i \in 1..Len(seq) : seq[i] = x})

\* The paths a callback has taken from its list.
Handled(c) == { <<c, i>> : i \in 1..(ow[c].asked - Len(ow[c].todo)) }

\* A call that waits for a Mutex another call holds.
Waiting(p) ==
    \/ ow[p].pc = "lock_pending" /\ mutex.pending # None
    \/ ow[p].pc = "lock_sender" /\ mutex.sender # None

\* The calls under way.
Started == {p \in Callbacks \cup {Setup} : ow[p].pc \notin {"idle", "done"}}

\* C28: in every interleaving of the callbacks with complete_app_setup, a path
\* a callback has handled is once in the channel or once in PENDING_FILES and
\* never in both, a path not yet handled is in neither; PENDING_FILES is empty
\* once complete_app_setup has returned, so that every path is then in the
\* channel exactly once; and the calls under way never all wait for a Mutex.
C28_DeliveredExactlyOnce ==
    /\ \A c \in Callbacks : \A i \in 1..MaxFiles :
          Count(channel, <<c, i>>) + Count(pending_files, <<c, i>>)
             = IF <<c, i>> \in Handled(c) THEN 1 ELSE 0
    /\ ow[Setup].pc = "done"
          => /\ pending_files = <<>>
             /\ \A c \in Callbacks : \A path \in Handled(c) : Count(channel, path) = 1
    /\ sender \/ channel = <<>>
    /\ Started # {} => \E p \in Started : ~Waiting(p)

\* Every call has returned; one path at least was buffered and flushed, one
\* at least was sent by its callback.
C28_Witness ==
    /\ \A p \in Callbacks \cup {Setup} : ow[p].pc = "done"
    /\ ow[Setup].asked >= 1
    /\ Len(channel) > ow[Setup].asked
    /\ pending_files = <<>>

\* ---- claims about the recent files (SpecRecent)
\* C29: after any sequence of add_recent_file calls recent_files has no path
\* twice, at most MAX_RECENT_FILES elements, the path added last at its head,
\* and its paths in the order of their last add, latest first.
C29_RecentFiles ==
    /\ \A i, j \in 1..Len(recent_files) : i # j => recent_files[i] # recent_files[j]
    /\ Len(recent_files) <= MAX_RECENT_FILES
    /\ adds > 0 => recent_files # <<>> /\ added_at[recent_files[1]] = adds
    /\ \A i, j \in 1..Len(recent_files) :
          i < j => added_at[recent_files[i]] > added_at[recent_files[j]]

\* A full list that has dropped its oldest path and has had a path it already
\* held moved to its head.
C29_Witness ==
    /\ Len(recent_files) = MAX_RECENT_FILES
    /\ \E p \in RecentPaths : added_at[p] > 0 /\ \A i \in 1..Len(recent_files) : recent_files[i] # p
    /\ recent_files[1] < recent_files[2]
    /\ rf_calls >= 2

\* ---- claims about the writing time (SpecTime)
\* The loop takes a message from the channel in this step.
Received == tb_queue # <<>> /\ tb_queue' = Tail(tb_queue) /\ tb_last' # tb_last

\* C30: the counter grows only when the loop, focused, receives
\* FocusUpdate(false) or Stop, and then by the time since the interval began;
\* a FocusUpdate that repeats the focus state changes neither the counter nor
\* the start of the interval; the counter decreases only to 0 and only in
\* get_and_reset_writing_time, which takes all of it; so what the loop has
\* added is what the get_and_reset calls have taken plus what the counter holds.
C30_WritingTimeAccounting ==
    [][ /\ writing_time' > writing_time
           => /\ Received /\ is_focused
              /\ Head(tb_queue) \in {FocusUpdate(FALSE), Stop}
              /\ writing_time' - writing_time = instant - focus_start_time
        /\ (Received /\ Head(tb_queue).type = "FocusUpdate"
                     /\ Head(tb_queue).focused = is_focused)
           => /\ writing_time' = writing_time
              /\ focus_start_time' = focus_start_time
              /\ is_focused' = is_focused
        /\ (Received /\ Head(tb_queue) = FocusUpdate(TRUE) /\ ~is_focused)
           => focus_start_time' = instant /\ writing_time' = writing_time
        /\ writing_time' < writing_time
           => /\ tb_last'.ev = "get_and_reset_writing_time"
              /\ writing_time' = 0
              /\ tb_taken' = tb_taken + writing_time
              /\ tb_last'.ret = writing_time \div 1000
        /\ tb_added' = tb_taken' + writing_time'
        /\ tb_added' >= tb_added /\ tb_taken' >= tb_taken ]_vars

\* FocusUpdate(true) has reached the loop while it was focused and its
\* interval had begun earlier, after a get_and_reset took a whole second or
\* more, and the counter holds time again.
C30_Witness ==
    /\ tb_last = TbEvent("FocusUpdate", TRUE, TRUE, 0)
    /\ instant > focus_start_time
    /\ tb_taken >= 1000
    /\ writing_time > 0
    /\ tb_added = tb_taken + writing_time

\* ---- claims about concurrent saves (SpecConc)
Done(t) == procs[t].pc = "done"

\* The threads whose save of token u has returned Ok.
DoneOn(u) == {t \in Threads : Done(t) /\ procs[t].uuid = u}

\* C18: once concurrent saves of one token have returned Ok, the persisted ledger
\* holds at least one and at most all of their entries, and it holds fewer than
\* all exactly when two of the saves had loaded the same ledger: each rewrites
\* the full record from what it loaded, and the last writer wins.
C18_LostUpdate ==
    \A u \in Uuids :
        DoneOn(u) # {}
        => /\ u \in DOMAIN ledgers
           /\ Len(ledgers[u]) \in 1..Cardinality(DoneOn(u))
           /\ Len(ledgers[u]) < Cardinality(DoneOn(u))
                <=> \E t1, t2 \in DoneOn(u) :
                       t1 # t2 /\ procs[t1].history = procs[t2].history

\* Two saves of one token returned Ok and the ledger holds a single entry.
C18_Witness ==
    /\ Len(saves) = 2
    /\ saves[1][3] = saves[2][3]
    /\ Cardinality(DoneOn(saves[1][3])) = 2
    /\ Len(ledgers[saves[1][3]]) = 1

\* Some thread's fs::write of the blob of hash h has completed.
WriteCompleted(h) == \E t \in Threads : procs[t].hash = h /\ procs[t].wrote

\* C19: under every interleaving of concurrent saves, a blob whose write has
\* completed holds the content whose hash is its key.
C19_BlobsSafeToRace ==
    \A h \in DOMAIN blobs :
        WriteCompleted(h) => blobs[h] \in ConcContents /\ calculate_hash(blobs[h]) = h

====
